---- MODULE Spec2Model ----
(***************************************************************************)
(* Model of fdc_lookup.py: the USDA FoodData Central calorie lookup        *)
(* (search -> rank -> details -> calories per gram x grams -> rounding)    *)
(* and its process-wide diagnostic record _last_error.                     *)
(*                                                                         *)
(* Python is dynamically typed, so every Python value is a tagged record:  *)
(*   None            PyNone        [none |-> TRUE]                         *)
(*   int / float     Num(n, d)     [n |-> n, d |-> d], the reduced         *)
(*                   fraction n/d; arithmetic is exact (binary floating    *)
(*                   point error is not modelled)                          *)
(*   bool            Bool(b)       [b |-> b]                               *)
(*   str             Str(s)        [s |-> s], s the tuple of characters    *)
(*   str (opaque)    Atom(a)       [a |-> a], a string that the code only  *)
(*                   stores or compares for equality                       *)
(*   dict            Dict(r)       [dict |-> r], DOMAIN r the key set      *)
(*   list            List(q)       [list |-> q], q a sequence              *)
(***************************************************************************)
EXTENDS Integers, Sequences, FiniteSets, TLC

VARIABLES
    pc,             \* position of the caller in fdc_lookup_kcal
    calls,          \* number of lookups started so far
    name, amt, unit,    \* the row being looked up: arguments of every lookup
    api_key,            \* argument of the lookup in progress
    sent,           \* the HTTP requests the lookup in progress has issued
    recv,           \* ghost: the outcome of requests.get for each of them
    food,           \* local: the candidate _search_food returned
    detail,         \* local: the record _get_food returned
    cal_per_g,      \* local
    grams_req,      \* local
    ret,            \* the value the lookup returned
    last_error,     \* the module global _last_error
    errFresh,       \* ghost: the lookup in progress has written _last_error
    ROUND_TO_KCAL,  \* the module global ROUND_TO_KCAL
    rin, rout       \* argument and result of a direct _round_kcal call; rin is
                    \* also the list given to a direct _best_food call, and
                    \* the dict of each thread's _set_err call in SpecConc

vars == <<pc, calls, name, amt, unit, api_key, sent, recv, food, detail, cal_per_g,
          grams_req, ret, last_error, errFresh, ROUND_TO_KCAL, rin, rout>>

----------------------------------------------------------------------------
\* Python values

PyNone == [none |-> TRUE]
Unset == [unset |-> TRUE]
Raised == [raise |-> TRUE]
Bool(b) == [b |-> b]
Str(s) == [s |-> s]
Atom(a) == [a |-> a]
Dict(r) == [dict |-> r]
List(q) == [list |-> q]
EmptyDict == Dict(<<>>)
EmptyStr == Str(<<>>)

IsNone(v) == "none" \in DOMAIN v
IsNum(v) == "n" \in DOMAIN v
IsStr(v) == "s" \in DOMAIN v
IsDict(v) == "dict" \in DOMAIN v
IsList(v) == "list" \in DOMAIN v
IsRaised(v) == "raise" \in DOMAIN v

RECURSIVE GCD(_, _)
GCD(a, b) == IF b = 0 THEN a ELSE GCD(b, a % b)

Abs(n) == IF n < 0 THEN -n ELSE n

\* the number n/d, d > 0, as a reduced fraction
Num(n, d) ==
    LET g == GCD(Abs(n), d)
    IN  IF n = 0 THEN [n |-> 0, d |-> 1] ELSE [n |-> n \div g, d |-> d \div g]

IntNum(k) == [n |-> k, d |-> 1]

Mul(x, y) == Num(x.n * y.n, x.d * y.d)

\* x / y for y # 0
Div(x, y) ==
    IF y.n > 0 THEN Num(x.n * y.d, x.d * y.n)
    ELSE Num(-(x.n * y.d), x.d * (-y.n))

Neg(x) == [n |-> -x.n, d |-> x.d]

Less(x, y) == x.n * y.d < y.n * x.d

\* Python 3 round(v) of a float: the nearest integer, a tie goes to the even one
PyRound(v) ==
    LET q == v.n \div v.d
        r == v.n - q * v.d
    IN  IF 2 * r < v.d THEN q
        ELSE IF 2 * r > v.d THEN q + 1
        ELSE IF q % 2 = 0 THEN q ELSE q + 1

\* bool(v)
Truthy(v) ==
    IF IsNone(v) THEN FALSE
    ELSE IF IsNum(v) THEN v.n # 0
    ELSE IF IsStr(v) THEN v.s # <<>>
    ELSE IF IsDict(v) THEN DOMAIN v.dict # {}
    ELSE IF IsList(v) THEN v.list # <<>>
    ELSE IF "b" \in DOMAIN v THEN v.b
    ELSE TRUE

\* d.get(k) and d.get(k, default) of a dict d
Get(d, k) == IF k \in DOMAIN d.dict THEN d.dict[k] ELSE PyNone
GetDefault(d, k, dflt) == IF k \in DOMAIN d.dict THEN d.dict[k] ELSE dflt

\* x or y
Or(x, y) == IF Truthy(x) THEN x ELSE y

----------------------------------------------------------------------------
\* Python strings

UpperAlpha == <<"A","B","C","D","E","F","G","H","I","J","K","L","M",
                "N","O","P","Q","R","S","T","U","V","W","X","Y","Z">>
LowerAlpha == <<"a","b","c","d","e","f","g","h","i","j","k","l","m",
                "n","o","p","q","r","s","t","u","v","w","x","y","z">>
Whitespace == {" ", "\t", "\n"}
Digits == <<"0","1","2","3","4","5","6","7","8","9">>

LowerChar(c) ==
    IF \E i \in DOMAIN UpperAlpha : UpperAlpha[i] = c
    THEN LowerAlpha[CHOOSE i \in DOMAIN UpperAlpha : UpperAlpha[i] = c]
    ELSE c

\* s.lower()
Lower(x) == Str([i \in DOMAIN x.s |-> LowerChar(x.s[i])])

RECURSIVE LStrip(_)
LStrip(s) ==
    IF s # <<>> /\ Head(s) \in Whitespace THEN LStrip(Tail(s)) ELSE s

RECURSIVE RStrip(_)
RStrip(s) ==
    IF s # <<>> /\ s[Len(s)] \in Whitespace
    THEN RStrip(SubSeq(s, 1, Len(s) - 1)) ELSE s

\* s.strip()
Strip(x) == Str(RStrip(LStrip(x.s)))

\* sub in s, for character tuples
InSeq(sub, s) ==
    \E i \in 0..(Len(s) - Len(sub)) : SubSeq(s, i + 1, i + Len(sub)) = sub

\* x in y, for two str values
In(x, y) == InSeq(x.s, y.s)

RECURSIVE DigitsOf(_)
DigitsOf(k) ==
    IF k < 10 THEN <<Digits[k + 1]>>
    ELSE DigitsOf(k \div 10) \o <<Digits[(k % 10) + 1]>>

\* str(v) of None, a str or a non-negative int
PyStr(v) ==
    IF IsStr(v) THEN v
    ELSE IF IsNone(v) THEN Str(<<"N","o","n","e">>)
    ELSE IF IsNum(v) /\ v.d = 1 /\ v.n >= 0 THEN Str(DigitsOf(v.n))
    ELSE Str(<<"?">>)

----------------------------------------------------------------------------
\* Module constants of fdc_lookup.py

\* FALLBACK_GRAMS["each"], in insertion order
FALLBACK_GRAMS_each ==
    << <<Str(<<"e","g","g">>), IntNum(50)>>,
       <<Str(<<"e","g","g","s">>), IntNum(50)>>,
       <<Str(<<"a","p","p","l","e">>), IntNum(182)>>,
       <<Str(<<"b","a","n","a","n","a">>), IntNum(118)>>,
       <<Str(<<"o","r","a","n","g","e">>), IntNum(131)>>,
       <<Str(<<"p","e","a","r">>), IntNum(178)>>,
       <<Str(<<"p","e","a","c","h">>), IntNum(150)>> >>

\* FALLBACK_GRAMS["oz"] = 28.349523125 = 45359237 / 1600000
FALLBACK_GRAMS_oz == Num(45359237, 1600000)

U_g == Str(<<"g">>)
U_oz == Str(<<"o","z">>)
U_each == Str(<<"e","a","c","h">>)
U_tbsp == Str(<<"t","b","s","p">>)
U_tsp == Str(<<"t","s","p">>)
U_cup == Str(<<"c","u","p">>)
U_serving == Str(<<"s","e","r","v","i","n","g">>)
U_servings == Str(<<"s","e","r","v","i","n","g","s">>)

\* faulty variant of FALLBACK_GRAMS: the spoon sizes are exchanged
FALLBACK_GRAMS_spoons_swapped(u) ==
    IF u = U_tbsp THEN Num(42, 10)
    ELSE IF u = U_tsp THEN Num(142, 10)
    ELSE IntNum(240)

\* FALLBACK_GRAMS[unit] for unit in ("tbsp", "tsp", "cup")
FALLBACK_GRAMS(u) ==
    IF u = U_tbsp THEN Num(142, 10)
    ELSE IF u = U_tsp THEN Num(42, 10)
    ELSE IntNum(240)

----------------------------------------------------------------------------
\* Rounding

\* faulty variant of _round_kcal: int(v / step + 0.5), a tie always goes up
_round_kcal_half_up(v, roundTo) ==
    LET step == IF Truthy(roundTo) THEN roundTo ELSE IntNum(1)
        x == Div(v, step)
    IN  IntNum(((2 * x.n + x.d) \div (2 * x.d)) * step.n)

\* _round_kcal(v) under the setting roundTo of ROUND_TO_KCAL (None is PyNone)
_round_kcal(v, roundTo) ==
    IF ~Truthy(roundTo) THEN IntNum(PyRound(v))
    ELSE IntNum(PyRound(Div(v, roundTo)) * roundTo.n)

----------------------------------------------------------------------------
\* Ranking

_datatype_rank(dt) ==
    IF dt = Atom("Survey (FNDDS)") THEN 0
    ELSE IF dt = Atom("SR Legacy") THEN 1
    ELSE IF dt = Atom("Foundation") THEN 2
    ELSE IF dt = Atom("Branded") THEN 3
    ELSE 99

W_dried == Str(<<"d","r","i","e","d">>)

\* float(f.get("score", 0.0)) raises on a score that is present and not a number
sort_key_raises(f) == ~IsNum(GetDefault(f, "score", IntNum(0)))

\* faulty variant of sort_key: the score is not negated, so the lower score wins
sort_key_ascending_score(f, want_dried) ==
    LET desc == Lower(Or(Get(f, "description"), EmptyStr))
        dried_penalty == IF want_dried = In(W_dried, desc) THEN 0 ELSE 1
    IN  <<_datatype_rank(GetDefault(f, "dataType", Atom(""))), dried_penalty,
          GetDefault(f, "score", IntNum(0))>>

\* sort_key(f) inside _best_food
sort_key(f, want_dried) ==
    LET desc == Lower(Or(Get(f, "description"), EmptyStr))
        dried_penalty == IF want_dried = In(W_dried, desc) THEN 0 ELSE 1
    IN  <<_datatype_rank(GetDefault(f, "dataType", Atom(""))), dried_penalty,
          Neg(GetDefault(f, "score", IntNum(0)))>>

\* tuple comparison k1 < k2
KeyLess(k1, k2) ==
    \/ k1[1] < k2[1]
    \/ k1[1] = k2[1] /\ k1[2] < k2[2]
    \/ k1[1] = k2[1] /\ k1[2] = k2[2] /\ Less(k1[3], k2[3])

\* _best_food(foods, query): sorted() is stable, so [0] is the first element
\* that no other element precedes in key order
_best_food(foods, query) ==
    LET q == Lower(Or(query, EmptyStr))
        want_dried == In(W_dried, q)
        key(i) == sort_key(foods[i], want_dried)
    IN  IF foods = <<>> THEN PyNone
        ELSE IF \E i \in DOMAIN foods : sort_key_raises(foods[i]) THEN Raised
        ELSE foods[CHOOSE i \in DOMAIN foods :
                     /\ \A j \in DOMAIN foods : ~KeyLess(key(j), key(i))
                     /\ \A j \in 1..(i - 1) : KeyLess(key(i), key(j))]

----------------------------------------------------------------------------
\* Nutrient extraction

W_1008 == Str(<<"1","0","0","8">>)
W_energy == Str(<<"e","n","e","r","g","y">>)
W_kcal == Str(<<"k","c","a","l">>)

\* the test of one foodNutrients entry n in _nutrient_kcal_per100g
nutrient_matches(n) ==
    LET nutrient == Or(Get(n, "nutrient"), EmptyDict)
        num == Or(Get(nutrient, "number"), Get(n, "nutrientNumber"))
        nm == Lower(Or(Get(nutrient, "name"), EmptyStr))
        val == Get(n, "amount")
    IN  IsNum(val) /\ (PyStr(num) = W_1008 \/ In(W_energy, nm) \/ In(W_kcal, nm))

_nutrient_kcal_per100g(fd) ==
    LET ns == Or(Get(fd, "foodNutrients"), List(<<>>)).list
    IN  IF \E i \in DOMAIN ns : nutrient_matches(ns[i])
        THEN Get(ns[CHOOSE i \in DOMAIN ns :
                      /\ nutrient_matches(ns[i])
                      /\ \A j \in 1..(i - 1) : ~nutrient_matches(ns[j])], "amount")
        ELSE PyNone

_label_calories(fd) ==
    LET lab == Or(Get(fd, "labelNutrients"), EmptyDict)
    IN  IF IsDict(lab)
        THEN LET v == Get(Or(Get(lab, "calories"), EmptyDict), "value")
             IN  IF IsNum(v) THEN v ELSE PyNone
        ELSE PyNone

GramUnits == {Str(<<"g">>), Str(<<"g","r","a","m">>), Str(<<"g","r","a","m","s">>)}

\* faulty variant of _serving_size_grams: the first portion with a numeric
\* gram weight is taken, positive or not
_serving_size_grams_any_weight(fd) ==
    LET size == Get(fd, "servingSize")
        u == Lower(Or(Get(fd, "servingSizeUnit"), EmptyStr))
        ps == Or(Get(fd, "foodPortions"), List(<<>>)).list
        num(i) == IsNum(Get(ps[i], "gramWeight"))
    IN  IF IsNum(size) /\ u \in GramUnits THEN size
        ELSE IF \E i \in DOMAIN ps : num(i)
        THEN Get(ps[CHOOSE i \in DOMAIN ps :
                      num(i) /\ \A j \in 1..(i - 1) : ~num(j)], "gramWeight")
        ELSE PyNone

_serving_size_grams(fd) ==
    LET size == Get(fd, "servingSize")
        u == Lower(Or(Get(fd, "servingSizeUnit"), EmptyStr))
        ps == Or(Get(fd, "foodPortions"), List(<<>>)).list
        pos(i) == LET gw == Get(ps[i], "gramWeight") IN IsNum(gw) /\ gw.n > 0
    IN  IF IsNum(size) /\ u \in GramUnits THEN size
        ELSE IF \E i \in DOMAIN ps : pos(i)
        THEN Get(ps[CHOOSE i \in DOMAIN ps :
                      pos(i) /\ \A j \in 1..(i - 1) : ~pos(j)], "gramWeight")
        ELSE PyNone

\* faulty variant of _calories_per_gram: the label path is tried first
_calories_per_gram_label_first(fd) ==
    LET per100 == _nutrient_kcal_per100g(fd)
        label == _label_calories(fd)
        g == _serving_size_grams(fd)
    IN  IF IsNum(label) /\ IsNum(g) /\ g.n > 0 THEN Div(label, g)
        ELSE IF IsNum(per100) THEN Div(per100, IntNum(100))
        ELSE PyNone

_calories_per_gram(fd) ==
    LET per100 == _nutrient_kcal_per100g(fd)
        label == _label_calories(fd)
        g == _serving_size_grams(fd)
    IN  IF IsNum(per100) THEN Div(per100, IntNum(100))
        ELSE IF IsNum(label) /\ IsNum(g) /\ g.n > 0 THEN Div(label, g)
        ELSE PyNone

----------------------------------------------------------------------------
\* Unit conversion

W_piece == Str(<<"p","i","e","c","e">>)
W_unit == Str(<<"u","n","i","t">>)

\* p.get("measureUnit", {}) or {}).get("name", "") of a portion p
measure_unit_name(p) ==
    GetDefault(Or(GetDefault(p, "measureUnit", EmptyDict), EmptyDict), "name", EmptyStr)

\* the test of one foodPortions entry p in _grams_for_request, u the normalised unit
portion_matches(p, u) ==
    LET gram == Get(p, "gramWeight")
        desc == Lower(Or(Get(p, "portionDescription"), EmptyStr))
        unit_name == Lower(measure_unit_name(p))
    IN  IsNum(gram) /\ ( \/ In(u, desc)
                         \/ In(u, unit_name)
                         \/ (u = U_each /\ (In(U_each, desc) \/ In(W_piece, desc)
                                            \/ In(W_unit, desc))) )

\* the loop over foodPortions from entry i on: the product for the first match,
\* Raised when .lower() is called on a measureUnit name that is not a str,
\* PyNone when the loop ends without a match
RECURSIVE portion_scan(_, _, _, _)
portion_scan(ps, i, u, a) ==
    IF i > Len(ps) THEN PyNone
    ELSE IF ~IsStr(measure_unit_name(ps[i])) THEN Raised
    ELSE IF portion_matches(ps[i], u) THEN Mul(a, Get(ps[i], "gramWeight"))
    ELSE portion_scan(ps, i + 1, u, a)

\* faulty variant of each_scan: the table is scanned from its last entry
RECURSIVE each_scan_reverse(_, _, _)
each_scan_reverse(i, lower, a) ==
    LET k == Len(FALLBACK_GRAMS_each) + 1 - i
    IN  IF i > Len(FALLBACK_GRAMS_each) THEN Mul(a, IntNum(50))
        ELSE IF In(FALLBACK_GRAMS_each[k][1], lower)
        THEN Mul(a, FALLBACK_GRAMS_each[k][2])
        ELSE each_scan_reverse(i + 1, lower, a)

\* the loop over FALLBACK_GRAMS["each"] from entry i on
RECURSIVE each_scan(_, _, _)
each_scan(i, lower, a) ==
    IF i > Len(FALLBACK_GRAMS_each) THEN Mul(a, IntNum(50))
    ELSE IF In(FALLBACK_GRAMS_each[i][1], lower) THEN Mul(a, FALLBACK_GRAMS_each[i][2])
    ELSE each_scan(i + 1, lower, a)

\* faulty variant of _grams_for_request: the portions are scanned before the
\* mass units are tested
_grams_for_request_portions_first(fd, u0, a, nm) ==
    LET u == Strip(Lower(Or(u0, U_g)))
        ps == Or(Get(fd, "foodPortions"), List(<<>>)).list
        found == portion_scan(ps, 1, u, a)
    IN  IF ~IsNone(found) THEN found
        ELSE IF u = U_g THEN a
        ELSE IF u = U_oz THEN Mul(a, FALLBACK_GRAMS_oz)
        ELSE IF u = U_each THEN each_scan(1, Strip(Lower(Or(nm, EmptyStr))), a)
        ELSE IF u \in {U_tbsp, U_tsp, U_cup} THEN Mul(a, FALLBACK_GRAMS(u))
        ELSE PyNone

\* faulty variant of _grams_for_request: the generic table is consulted before
\* the portions
_grams_for_request_table_first(fd, u0, a, nm) ==
    LET u == Strip(Lower(Or(u0, U_g)))
        ps == Or(Get(fd, "foodPortions"), List(<<>>)).list
        found == portion_scan(ps, 1, u, a)
    IN  IF u = U_g THEN a
        ELSE IF u = U_oz THEN Mul(a, FALLBACK_GRAMS_oz)
        ELSE IF u = U_each THEN each_scan(1, Strip(Lower(Or(nm, EmptyStr))), a)
        ELSE IF u \in {U_tbsp, U_tsp, U_cup} THEN Mul(a, FALLBACK_GRAMS(u))
        ELSE IF ~IsNone(found) THEN found
        ELSE PyNone

_grams_for_request(fd, u0, a, nm) ==
    LET u == Strip(Lower(Or(u0, U_g)))
        ps == Or(Get(fd, "foodPortions"), List(<<>>)).list
        found == portion_scan(ps, 1, u, a)
    IN  IF u = U_g THEN a
        ELSE IF u = U_oz THEN Mul(a, FALLBACK_GRAMS_oz)
        ELSE IF ~IsNone(found) THEN found
        ELSE IF u = U_each THEN each_scan(1, Strip(Lower(Or(nm, EmptyStr))), a)
        ELSE IF u \in {U_tbsp, U_tsp, U_cup} THEN Mul(a, FALLBACK_GRAMS(u))
        ELSE PyNone

----------------------------------------------------------------------------
\* HTTP

\* _http_json(url, params) for the outcome resp of requests.get:
\*   [exc |-> e]                   requests.get raised e
\*   [status |-> k, body |-> b]    a response; b is the decoded JSON body, or
\*                                 Unparseable when r.json() raises
\* The result is <<data, status, err>>.
Unparseable == [unparseable |-> TRUE]

_http_json(resp) ==
    IF "exc" \in DOMAIN resp THEN <<PyNone, PyNone, Atom(resp.exc)>>
    ELSE IF resp.status # 200
         THEN <<PyNone, IntNum(resp.status),
                IF "unparseable" \in DOMAIN resp.body THEN Atom("r.text") ELSE resp.body>>
    ELSE IF "unparseable" \in DOMAIN resp.body
         THEN <<PyNone, PyNone, Atom("JSONDecodeError")>>
    ELSE <<resp.body, IntNum(200), PyNone>>

----------------------------------------------------------------------------
\* _search_food, _get_food and fdc_lookup_kcal between two HTTP calls.
\* Each operator gives the outcome of one stretch of code as a record:
\*   err   the dict _set_err leaves in _last_error, or Unset when the stretch
\*         does not call _set_err
\*   next  where the lookup goes on

DATA_TYPES == List(<<Atom("Survey (FNDDS)"), Atom("SR Legacy"),
                    Atom("Foundation"), Atom("Branded")>>)

\* params of the first and of the second search request
search_params(query, key) ==
    Dict([api_key |-> key, query |-> query, pageSize |-> IntNum(25),
          dataType |-> DATA_TYPES])
search_params_unfiltered(query, key) ==
    Dict([api_key |-> key, query |-> query, pageSize |-> IntNum(25)])

\* faulty variant of input_invalid: the api_key is not tested
input_invalid_name_only(n, k) == ~Truthy(n)

\* the test "not name or not api_key"
input_invalid(n, k) == ~Truthy(n) \/ ~Truthy(k)

\* the dicts the calls of _set_err leave in _last_error; h is _http_json's result
err_input(n, k) ==
    [stage |-> Atom("input"), error |-> Atom("missing name or api_key"),
     name |-> n, has_key |-> Bool(Truthy(k))]
\* faulty variant of err_search: the status is not recorded
err_search_no_status(h, params) ==
    [stage |-> Atom("search"), status |-> PyNone, error |-> h[3], params |-> params]
err_search(h, params) ==
    [stage |-> Atom("search"), status |-> h[2], error |-> h[3], params |-> params]
\* faulty variant of err_search_empty: an empty result is reported as a search failure
err_search_empty_as_search(h, params) ==
    [stage |-> Atom("search"), status |-> h[2], error |-> Atom("no foods"),
     params |-> params]
err_search_empty(h, params) ==
    [stage |-> Atom("search_empty"), status |-> h[2], error |-> Atom("no foods"),
     params |-> params]
\* faulty variant of err_details: the failure is reported under the stage of _search_food
err_details_as_search(h, fdc_id) ==
    [stage |-> Atom("search"), status |-> h[2], error |-> h[3], fdc_id |-> fdc_id]
err_details(h, fdc_id) ==
    [stage |-> Atom("details"), status |-> h[2], error |-> h[3], fdc_id |-> fdc_id]
err_ok(fdc_id, total) ==
    [stage |-> Atom("ok"), fdc_id |-> fdc_id, total |-> total]
\* faulty variant of err_ok_fallback_label: the fallback is reported as a full success
err_ok_fallback_label_as_ok(fdc_id, total) ==
    [stage |-> Atom("ok"), fdc_id |-> fdc_id, total |-> total]
err_ok_fallback_label(fdc_id, total) ==
    [stage |-> Atom("ok_fallback_label"), fdc_id |-> fdc_id, total |-> total]
\* faulty variant of err_parse_cal: the message blames the gram conversion
err_parse_cal_as_grams(fdc_id) ==
    [stage |-> Atom("parse"), fdc_id |-> fdc_id,
     error |-> [fmt |-> "no gram match for unit=", unit |-> PyNone]]
err_parse_cal(fdc_id) ==
    [stage |-> Atom("parse"), error |-> Atom("no per-gram calories"), fdc_id |-> fdc_id]
err_parse_grams(fdc_id, u) ==
    [stage |-> Atom("parse"), fdc_id |-> fdc_id,
     error |-> [fmt |-> "no gram match for unit=", unit |-> u]]

\* (data or {}).get("foods") or []
foods_of(data) == Or(Get(Or(data, EmptyDict), "foods"), List(<<>>))

\* faulty variant of after_search: a failed search is detected by the stage in
\* _last_error, which an earlier lookup may have left there
after_search_checks_record(f) ==
    IF IsRaised(f) THEN [next |-> "raised", err |-> Unset, food |-> f]
    ELSE IF \/ ~Truthy(f)
            \/ ("stage" \in DOMAIN last_error /\ last_error.stage = Atom("search"))
    THEN [next |-> "done", err |-> Unset, food |-> f]
    ELSE [next |-> "details", err |-> Unset, food |-> f]

\* fdc_lookup_kcal once _search_food has returned f
after_search(f) ==
    IF IsRaised(f) THEN [next |-> "raised", err |-> Unset, food |-> f]
    ELSE IF ~Truthy(f) THEN [next |-> "done", err |-> Unset, food |-> f]
    ELSE [next |-> "details", err |-> Unset, food |-> f]

\* faulty variant of search_first: a failed first request is retried without the filter
search_first_retry_failure(resp, query, key) ==
    LET h == _http_json(resp)
    IN  IF IsNone(h[1]) \/ ~Truthy(foods_of(h[1]))
        THEN [next |-> "search2", food |-> Unset, err |-> Unset]
        ELSE after_search(_best_food(foods_of(h[1]).list, query))

\* faulty variant of search_first: an empty first result is final
search_first_no_retry(resp, query, key) ==
    LET h == _http_json(resp)
    IN  IF IsNone(h[1])
        THEN [next |-> "done", food |-> PyNone,
              err |-> err_search(h, search_params(query, key))]
        ELSE IF ~Truthy(foods_of(h[1]))
        THEN [next |-> "done", food |-> PyNone,
              err |-> err_search_empty(h, search_params(query, key))]
        ELSE after_search(_best_food(foods_of(h[1]).list, query))

\* _search_food from the answer to its first request on
search_first(resp, query, key) ==
    LET h == _http_json(resp)
    IN  IF IsNone(h[1])
        THEN [next |-> "done", food |-> PyNone,
              err |-> err_search(h, search_params(query, key))]
        ELSE IF ~Truthy(foods_of(h[1]))
        THEN [next |-> "search2", food |-> Unset, err |-> Unset]
        ELSE after_search(_best_food(foods_of(h[1]).list, query))

\* faulty variant of search_second: the first candidate is taken unranked
search_second_unranked(resp, query, key) ==
    LET h == _http_json(resp)
    IN  IF IsNone(h[1])
        THEN [next |-> "done", food |-> PyNone,
              err |-> err_search(h, search_params_unfiltered(query, key))]
        ELSE IF ~Truthy(foods_of(h[1]))
        THEN [next |-> "done", food |-> PyNone,
              err |-> err_search_empty(h, search_params_unfiltered(query, key))]
        ELSE after_search(foods_of(h[1]).list[1])

\* _search_food from the answer to its second request on
search_second(resp, query, key) ==
    LET h == _http_json(resp)
    IN  IF IsNone(h[1])
        THEN [next |-> "done", food |-> PyNone,
              err |-> err_search(h, search_params_unfiltered(query, key))]
        ELSE IF ~Truthy(foods_of(h[1]))
        THEN [next |-> "done", food |-> PyNone,
              err |-> err_search_empty(h, search_params_unfiltered(query, key))]
        ELSE after_search(_best_food(foods_of(h[1]).list, query))

\* faulty variant of ok_total: the total is not rounded
ok_total_unrounded(cpg, grams, roundTo) == Mul(cpg, grams)

\* total of the preferred path
ok_total(cpg, grams, roundTo) == _round_kcal(Mul(cpg, grams), roundTo)

\* faulty variant of label_fallback_applies: the unit is not tested
label_fallback_any_unit(fd, u) == IsNum(_label_calories(fd))

\* the test of the label-per-serving fallback
label_fallback_applies(fd, u) ==
    /\ IsNum(_label_calories(fd))
    /\ Strip(Lower(Or(u, EmptyStr))) \in {U_serving, U_servings}

\* total of the label-per-serving fallback
label_total(a, label_cals, roundTo) == _round_kcal(Mul(a, label_cals), roundTo)

\* fdc_lookup_kcal from the extraction on
compute(f, fd, nm, a, u, roundTo) ==
    LET cpg == _calories_per_gram(fd)
        grams == _grams_for_request(fd, u, IF Truthy(a) THEN a ELSE IntNum(0), nm)
        fdc_id == Get(f, "fdcId")
    IN  IF IsRaised(grams)
        THEN [next |-> "raised", ret |-> Raised, err |-> Unset,
              cal_per_g |-> cpg, grams_req |-> Unset]
        ELSE IF ~IsNone(cpg) /\ ~IsNone(grams)
        THEN [next |-> "done", ret |-> ok_total(cpg, grams, roundTo),
              cal_per_g |-> cpg, grams_req |-> grams,
              err |-> err_ok(fdc_id, ok_total(cpg, grams, roundTo))]
        ELSE IF label_fallback_applies(fd, u)
        THEN [next |-> "done", ret |-> label_total(a, _label_calories(fd), roundTo),
              cal_per_g |-> cpg, grams_req |-> grams,
              err |-> err_ok_fallback_label(
                          fdc_id, label_total(a, _label_calories(fd), roundTo))]
        ELSE IF IsNone(cpg)
        THEN [next |-> "done", ret |-> PyNone, cal_per_g |-> cpg, grams_req |-> grams,
              err |-> err_parse_cal(fdc_id)]
        ELSE [next |-> "done", ret |-> PyNone, cal_per_g |-> cpg, grams_req |-> grams,
              err |-> err_parse_grams(fdc_id, u)]

\* _get_food and the rest of fdc_lookup_kcal from the answer to the details
\* request on
after_details(resp, f, nm, a, u, roundTo) ==
    LET h == _http_json(resp)
    IN  IF IsNone(h[1])
        THEN [next |-> "done", ret |-> PyNone, detail |-> PyNone,
              cal_per_g |-> Unset, grams_req |-> Unset,
              err |-> err_details(h, Get(f, "fdcId"))]
        ELSE IF ~Truthy(h[1])
        THEN [next |-> "done", ret |-> PyNone, detail |-> h[1],
              cal_per_g |-> Unset, grams_req |-> Unset, err |-> Unset]
        ELSE [detail |-> h[1]] @@ compute(f, h[1], nm, a, u, roundTo)

----------------------------------------------------------------------------
\* Inputs: the arguments callers pass and the answers the backend gives

MaxCalls == 2

N_dried_banana == Str(<<"D","r","i","e","d"," ","B","a","n","a","n","a">>)
Names == {EmptyStr, N_dried_banana}

Keys == {EmptyStr, Str(<<"K">>)}

Amounts == {IntNum(1), IntNum(118), Num(5, 2)}

U_OZ_padded == Str(<<" ","O","Z"," ">>)
U_Servings == Str(<<"S","e","r","v","i","n","g","s">>)
U_ml == Str(<<"m","l">>)
Units == {U_g, U_OZ_padded, U_each, U_cup, U_Servings, U_ml}

RoundSettings == {IntNum(5), PyNone}

Candidate(id, dt, desc, score) ==
    Dict([fdcId |-> IntNum(id), dataType |-> Atom(dt), description |-> Str(desc),
          score |-> IntNum(score)])

C_branded == Candidate(11, "Branded", <<"B","a","r">>, 100)
C_foundation == Candidate(12, "Foundation", <<"R","a","w">>, 100)
C_survey == Candidate(13, "Survey (FNDDS)", <<"R","a","w">>, 100)
C_dried == Candidate(14, "Survey (FNDDS)", <<"D","R","I","E","D">>, 50)
\* a candidate without description and score
C_bare == Dict([fdcId |-> IntNum(15), dataType |-> Atom("SR Legacy")])
\* a candidate whose score is null
C_null_score == Dict([fdcId |-> IntNum(16), score |-> PyNone])

FoodLists ==
    { <<C_branded, C_foundation, C_survey>>,
      <<C_survey, C_dried, C_bare>>,
      <<C_bare>>,
      <<EmptyDict>>,
      <<C_null_score>> }

Nutrient(number, nm, amount) ==
    Dict([nutrient |-> Dict([number |-> number, name |-> Str(nm)]), amount |-> amount])

Portion(gw, desc, unit_name) ==
    Dict([gramWeight |-> gw, portionDescription |-> Str(desc),
          measureUnit |-> Dict([name |-> unit_name])])

LabelNutrients(v) == Dict([calories |-> Dict([value |-> v])])

\* nutrient 1008 = 89 kcal per 100 g, and a cup portion
D_banana ==
    Dict([fdcId |-> IntNum(13),
          foodNutrients |->
              List(<<Nutrient(Str(<<"1","0","0","3">>), <<"P","r","o","t","e","i","n">>,
                              IntNum(1)),
                     Nutrient(IntNum(1008), <<"E","n","e","r","g","y">>, IntNum(89))>>),
          foodPortions |->
              List(<<Portion(IntNum(150), <<"1"," ","C","u","p">>, Str(<<"c","u","p">>))>>)])
\* nutrient table and label together
D_both ==
    Dict([fdcId |-> IntNum(12),
          foodNutrients |-> List(<<Nutrient(Str(<<"1","0","0","8">>), <<>>, IntNum(165))>>),
          labelNutrients |-> LabelNutrients(IntNum(200)),
          servingSize |-> IntNum(100), servingSizeUnit |-> Str(<<"g">>)])
\* label only, serving size in grams
D_label ==
    Dict([fdcId |-> IntNum(11),
          labelNutrients |-> LabelNutrients(IntNum(45)),
          servingSize |-> IntNum(30), servingSizeUnit |-> Str(<<"G">>)])
\* label only, serving size not in grams and no portion: calories per gram
\* do not resolve
D_label_only ==
    Dict([fdcId |-> IntNum(11), labelNutrients |-> LabelNutrients(IntNum(45)),
          servingSize |-> IntNum(1), servingSizeUnit |-> Str(<<"c","u","p">>)])
\* neither nutrient table nor label
D_nothing ==
    Dict([fdcId |-> IntNum(15), foodNutrients |-> PyNone,
          foodPortions |-> List(<<Portion(PyNone, <<"e","a","c","h">>, Str(<<>>))>>)])
\* a portion whose measureUnit name is null
D_null_unit ==
    Dict([fdcId |-> IntNum(15),
          foodNutrients |-> List(<<Nutrient(PyNone, <<"k","C","a","l">>, Num(1, 2))>>),
          foodPortions |->
              List(<<Portion(IntNum(10), <<"s","l","i","c","e">>, PyNone)>>)])

Details == {D_banana, D_both, D_label, D_label_only, D_nothing, D_null_unit, EmptyDict}

Failures ==
    { [exc |-> "Timeout"],
      [status |-> 503, body |-> Unparseable],
      [status |-> 429, body |-> Dict([error |-> Atom("OVER_RATE_LIMIT")])],
      [status |-> 404, body |-> Unparseable],
      [status |-> 200, body |-> Unparseable],
      [status |-> 200, body |-> PyNone] }

SearchResponses ==
    Failures
    \cup {[status |-> 200, body |-> EmptyDict],
          [status |-> 200, body |-> Dict([foods |-> List(<<>>)])]}
    \cup {[status |-> 200, body |-> Dict([foods |-> List(fl)])] : fl \in FoodLists}

DetailsResponses == Failures \cup {[status |-> 200, body |-> d] : d \in Details}

\* TLC computes with 32-bit integers: the products a lookup of a ounces forms,
\* with the numerator 45359237 of FALLBACK_GRAMS["oz"], must stay below 2^31
OzRepresentable(u, a, fd) ==
    LET cpg == _calories_per_gram(fd)
        most == 2147483647 \div FALLBACK_GRAMS_oz.n
    IN  Strip(Lower(Or(u, U_g))) = U_oz =>
            /\ Abs(a.n) <= most
            /\ IsNum(cpg) => Abs(a.n) * Abs(cpg.n) <= most

----------------------------------------------------------------------------
\* The lookup as a state machine

SearchRequest(query, key) ==
    [url |-> "FDC_SEARCH_URL", params |-> search_params(query, key)]
SearchRequestUnfiltered(query, key) ==
    [url |-> "FDC_SEARCH_URL", params |-> search_params_unfiltered(query, key)]
DetailsRequest(f, key) ==
    [url |-> "FDC_DETAILS_URL", fdcId |-> Get(f, "fdcId"),
     params |-> Dict([api_key |-> key])]

Init ==
    /\ pc = "idle"
    /\ calls = 0
    /\ name \in Names /\ amt \in Amounts /\ unit \in Units
    /\ api_key = Unset
    /\ sent = <<>> /\ recv = <<>>
    /\ food = Unset /\ detail = Unset /\ cal_per_g = Unset /\ grams_req = Unset
    /\ ret = Unset
    /\ last_error = <<>>
    /\ errFresh = FALSE
    /\ ROUND_TO_KCAL \in RoundSettings
    /\ rin = Unset /\ rout = Unset

\* _set_err: err is the outcome's dict, or Unset when _set_err is not called
SetErr(err) ==
    IF "unset" \in DOMAIN err
    THEN UNCHANGED <<last_error, errFresh>>
    ELSE last_error' = err /\ errFresh' = TRUE

\* fdc_lookup_kcal(name, amt, unit, api_key=k) up to its first HTTP request
Call(k) ==
    /\ pc \in {"idle", "done", "raised"}
    /\ calls < MaxCalls
    /\ calls' = calls + 1
    /\ api_key' = k
    /\ food' = Unset /\ detail' = Unset /\ cal_per_g' = Unset /\ grams_req' = Unset
    /\ recv' = <<>>
    /\ IF input_invalid(name, k)
       THEN /\ last_error' = err_input(name, k)
            /\ errFresh' = TRUE
            /\ ret' = PyNone
            /\ sent' = <<>>
            /\ pc' = "done"
       ELSE /\ sent' = <<SearchRequest(name, k)>>
            /\ ret' = Unset
            /\ pc' = "search1"
            /\ errFresh' = FALSE
            /\ UNCHANGED last_error
    /\ UNCHANGED <<name, amt, unit, ROUND_TO_KCAL, rin, rout>>

\* what both search answers lead to
SearchOutcome(resp, o) ==
    /\ recv' = Append(recv, resp)
    /\ SetErr(o.err)
    /\ food' = o.food
    /\ pc' = o.next
    /\ ret' = IF o.next = "done" THEN PyNone
              ELSE IF o.next = "raised" THEN Raised ELSE ret
    /\ sent' = IF o.next = "search2"
               THEN Append(sent, SearchRequestUnfiltered(name, api_key))
               ELSE IF o.next = "details"
               THEN Append(sent, DetailsRequest(o.food, api_key))
               ELSE sent
    /\ UNCHANGED <<calls, name, amt, unit, api_key, detail, cal_per_g, grams_req,
                   ROUND_TO_KCAL, rin, rout>>

\* the first search request is answered
SearchFilteredResponse ==
    /\ pc = "search1"
    /\ \E resp \in SearchResponses :
         \E o \in {search_first(resp, name, api_key)} : SearchOutcome(resp, o)

\* the second search request is answered
SearchUnfilteredResponse ==
    /\ pc = "search2"
    /\ \E resp \in SearchResponses :
         \E o \in {search_second(resp, name, api_key)} : SearchOutcome(resp, o)

\* the details request is answered
DetailsResponse ==
    /\ pc = "details"
    /\ \E resp \in DetailsResponses :
         /\ "body" \in DOMAIN resp /\ IsDict(resp.body)
               => OzRepresentable(unit, amt, resp.body)
         /\ \E o \in {after_details(resp, food, name, amt, unit, ROUND_TO_KCAL)} :
                /\ recv' = Append(recv, resp)
                /\ SetErr(o.err)
                /\ detail' = o.detail
                /\ cal_per_g' = o.cal_per_g
                /\ grams_req' = o.grams_req
                /\ ret' = o.ret
                /\ pc' = o.next
    /\ UNCHANGED <<calls, name, amt, unit, api_key, sent, food, ROUND_TO_KCAL, rin, rout>>

Next ==
    \/ \E k \in Keys : Call(k)
    \/ SearchFilteredResponse
    \/ SearchUnfilteredResponse
    \/ DetailsResponse

Spec == Init /\ [][Next]_vars

----------------------------------------------------------------------------
\* _round_kcal on its own: a raw total of k tenths, for every setting of
\* ROUND_TO_KCAL

MaxRawTenths == 1800

RawTotals == {Num(k, 10) : k \in (-MaxRawTenths)..MaxRawTenths}

InitRound ==
    /\ pc = "idle"
    /\ calls = 0
    /\ name = EmptyStr /\ amt = IntNum(1) /\ unit = U_g
    /\ api_key = Unset
    /\ sent = <<>> /\ recv = <<>>
    /\ food = Unset /\ detail = Unset /\ cal_per_g = Unset /\ grams_req = Unset
    /\ ret = Unset
    /\ last_error = <<>>
    /\ errFresh = FALSE
    /\ ROUND_TO_KCAL \in {IntNum(5), IntNum(0), PyNone}
    /\ rin \in RawTotals
    /\ rout = Unset

RoundCall ==
    /\ rout = Unset
    /\ rout' = _round_kcal(rin, ROUND_TO_KCAL)
    /\ UNCHANGED <<pc, calls, name, amt, unit, api_key, sent, recv, food, detail,
                   cal_per_g, grams_req, ret, last_error, errFresh, ROUND_TO_KCAL, rin>>

NextRound == RoundCall

SpecRound == InitRound /\ [][NextRound]_vars

----------------------------------------------------------------------------
\* _best_food on its own: every list of at most MaxFoods candidates (and one
\* list of three) in rin, the query in name, the result in food

MaxFoods == 2

\* the source types combined with every description and score
RankTypes == {"Survey (FNDDS)", "Branded", "Experimental"}
RankDescriptions == {Str(<<"F","i","g","s",","," ","D","r","i","e","d">>),
                     Str(<<"F","i","g","s",","," ","r","a","w">>)}
\* Unset stands for a candidate without the key "score"
RankScores == {Unset, IntNum(-1), IntNum(1)}

RankCandidate(dt, desc, score) ==
    IF score = Unset THEN Dict([dataType |-> Atom(dt), description |-> desc])
    ELSE Dict([dataType |-> Atom(dt), description |-> desc, score |-> score])

RankCandidates ==
    {RankCandidate(dt, desc, score) :
        dt \in RankTypes, desc \in RankDescriptions, score \in RankScores}
    \cup {RankCandidate("SR Legacy", Str(<<"F","i","g","s",","," ","r","a","w">>), Unset),
          RankCandidate("Foundation", Str(<<"F","i","g","s",","," ","r","a","w">>), IntNum(1)),
          EmptyDict}

\* source types Branded, Foundation, Survey (FNDDS) with equal scores
RankExample ==
    <<RankCandidate("Branded", Str(<<"F","i","g","s",","," ","r","a","w">>), IntNum(1)),
      RankCandidate("Foundation", Str(<<"F","i","g","s",","," ","r","a","w">>), IntNum(1)),
      RankCandidate("Survey (FNDDS)", Str(<<"F","i","g","s",","," ","r","a","w">>),
                    IntNum(1))>>

RankLists ==
    UNION {[1..k -> RankCandidates] : k \in 0..MaxFoods} \cup {RankExample}

RankQueries == {Str(<<"D","R","I","E","D"," ","f","i","g">>), Str(<<"f","i","g">>), PyNone}

InitRank ==
    /\ pc = "idle"
    /\ calls = 0
    /\ name \in RankQueries /\ amt = IntNum(1) /\ unit = U_g
    /\ api_key = Unset
    /\ sent = <<>> /\ recv = <<>>
    /\ food = Unset /\ detail = Unset /\ cal_per_g = Unset /\ grams_req = Unset
    /\ ret = Unset
    /\ last_error = <<>>
    /\ errFresh = FALSE
    /\ ROUND_TO_KCAL = IntNum(5)
    /\ rin \in RankLists
    /\ rout = Unset

RankCall ==
    /\ food = Unset
    /\ food' = _best_food(rin, name)
    /\ UNCHANGED <<pc, calls, name, amt, unit, api_key, sent, recv, detail, cal_per_g,
                   grams_req, ret, last_error, errFresh, ROUND_TO_KCAL, rin, rout>>

NextRank == RankCall

SpecRank == InitRank /\ [][NextRank]_vars

----------------------------------------------------------------------------
\* _calories_per_gram on its own: the details record in detail, assembled from
\* every choice of nutrient list, label block, serving size and portion list;
\* the result in cal_per_g

MaxNutrients == 2

\* a search-style entry: the code at top level, no nutrient record
N_flat == Dict([nutrientNumber |-> W_1008, amount |-> IntNum(52)])

NutrientEntries ==
    { Nutrient(W_1008, <<>>, IntNum(165)),
      Nutrient(IntNum(1008), <<"X">>, IntNum(89)),
      N_flat,
      Nutrient(Str(<<"2","0","4","7">>), <<"E","n","e","r","g","y">>, IntNum(60)),
      Nutrient(PyNone, <<"K","C","A","L">>, Num(1, 2)),
      Nutrient(Str(<<"1","0","0","3">>), <<"P","r","o","t","e","i","n">>, IntNum(7)),
      Nutrient(W_1008, <<"E","n","e","r","g","y">>, PyNone),
      Nutrient(W_1008, <<"E","n","e","r","g","y">>, IntNum(0)) }

\* each choice is the part of the record it contributes: <<>> is an absent key
NutrientChoices ==
    {<<>>, [foodNutrients |-> PyNone]}
    \cup {[foodNutrients |-> List(ns)] :
             ns \in UNION {[1..k -> NutrientEntries] : k \in 0..MaxNutrients}}

LabelChoices ==
    { <<>>,
      [labelNutrients |-> PyNone],
      [labelNutrients |-> LabelNutrients(IntNum(200))],
      [labelNutrients |-> LabelNutrients(PyNone)],
      [labelNutrients |-> Dict([calories |-> PyNone])] }

ServingChoices ==
    { <<>>,
      [servingSize |-> IntNum(100), servingSizeUnit |-> Str(<<"g">>)],
      [servingSize |-> IntNum(30), servingSizeUnit |-> Str(<<"G","R","A","M","S">>)],
      [servingSize |-> IntNum(1), servingSizeUnit |-> Str(<<"c","u","p">>)],
      [servingSize |-> IntNum(0), servingSizeUnit |-> Str(<<"g">>)],
      [servingSize |-> IntNum(-5), servingSizeUnit |-> Str(<<"g","r","a","m">>)] }

PortionChoices ==
    { <<>>,
      [foodPortions |-> List(<<Portion(IntNum(150), <<"1"," ","c","u","p">>,
                                       Str(<<"c","u","p">>))>>)],
      [foodPortions |-> List(<<Portion(PyNone, <<"s","l","i","c","e">>, EmptyStr),
                               Portion(IntNum(40), <<"s","l","i","c","e">>, EmptyStr)>>)],
      [foodPortions |-> List(<<Portion(IntNum(0), <<"b","i","t","e">>, EmptyStr),
                               Portion(IntNum(25), <<"b","a","r">>, EmptyStr)>>)] }

ExtractDetails ==
    {Dict(n @@ l @@ sv @@ p) :
        n \in NutrientChoices, l \in LabelChoices, sv \in ServingChoices,
        p \in PortionChoices}

\* nutrient 1008 = 165 together with label calories 200 per 100 g serving
ExtractExample ==
    Dict([foodNutrients |-> List(<<Nutrient(W_1008, <<>>, IntNum(165))>>),
          labelNutrients |-> LabelNutrients(IntNum(200)),
          servingSize |-> IntNum(100), servingSizeUnit |-> Str(<<"g">>)])

InitExtract ==
    /\ pc = "idle"
    /\ calls = 0
    /\ name = EmptyStr /\ amt = IntNum(1) /\ unit = U_g
    /\ api_key = Unset
    /\ sent = <<>> /\ recv = <<>>
    /\ food = Unset /\ detail \in ExtractDetails
    /\ cal_per_g = Unset /\ grams_req = Unset
    /\ ret = Unset
    /\ last_error = <<>>
    /\ errFresh = FALSE
    /\ ROUND_TO_KCAL = IntNum(5)
    /\ rin = Unset /\ rout = Unset

ExtractCall ==
    /\ cal_per_g = Unset
    /\ cal_per_g' = _calories_per_gram(detail)
    /\ UNCHANGED <<pc, calls, name, amt, unit, api_key, sent, recv, food, detail,
                   grams_req, ret, last_error, errFresh, ROUND_TO_KCAL, rin, rout>>

NextExtract == ExtractCall

SpecExtract == InitExtract /\ [][NextExtract]_vars

----------------------------------------------------------------------------
\* _grams_for_request on its own: the details record in detail, the other
\* arguments in unit, amt and name, the result in grams_req

MaxPortions == 2

\* the description mentions the cup
P_cup == Portion(IntNum(150), <<"1"," ","C","u","p">>, Str(<<"X">>))
\* the measure unit is named after the tablespoon
P_tbsp_name == Portion(IntNum(15), <<>>, Str(<<"T","B","S","P">>))
P_piece == Portion(IntNum(60), <<"1"," ","p","i","e","c","e">>, EmptyStr)
P_each_name == Portion(IntNum(7), <<>>, Str(<<"E","a","c","h">>))
\* a cup without gram weight
P_cup_no_weight == Portion(PyNone, <<"1"," ","c","u","p">>, Str(<<"c","u","p">>))
\* mentions both mass units
P_oz_g == Portion(IntNum(30), <<"1"," ","o","z">>, Str(<<"g">>))
\* gram weight only
P_bare == Dict([gramWeight |-> IntNum(5)])
\* "piece" in the name of the measure unit, not in the description
P_piece_name == Portion(IntNum(9), <<>>, Str(<<"p","i","e","c","e">>))
\* description and measure unit null
P_null_measure ==
    Dict([gramWeight |-> IntNum(240), portionDescription |-> PyNone,
          measureUnit |-> PyNone])
\* the name of the measure unit null
P_null_name == Portion(IntNum(10), <<"s","l","i","c","e">>, PyNone)

UnitPortions ==
    {P_cup, P_tbsp_name, P_piece, P_each_name, P_cup_no_weight, P_oz_g, P_bare,
     P_piece_name, P_null_measure}

PortionDetails(pool) ==
    {EmptyDict, Dict([foodPortions |-> PyNone])}
    \cup {Dict([foodPortions |-> List(ps)]) :
             ps \in UNION {[1..k -> pool] : k \in 0..MaxPortions}}

N_egg_roll == Str(<<"E","G","G"," ","r","o","l","l">>)
N_pineapple == Str(<<"P","i","n","e","a","p","p","l","e">>)
N_peach_pear == Str(<<"P","e","a","c","h"," ","P","e","a","r">>)
UnitNames == {N_egg_roll, N_pineapple, N_peach_pear, PyNone}

U_EACH_padded == Str(<<"E","A","C","H"," ">>)
U_blank == Str(<<" ">>)
U_slice == Str(<<"s","l","i","c","e">>)
UnitUnits ==
    {U_each, U_EACH_padded, U_cup, U_tbsp, U_tsp, U_ml, U_g, U_oz, U_OZ_padded,
     EmptyStr, PyNone, U_blank, U_serving, U_slice}

UnitAmounts == {IntNum(0), IntNum(-2), Num(5, 2)}

InitGrams(details, units, amounts) ==
    /\ pc = "idle"
    /\ calls = 0
    /\ name \in UnitNames /\ amt \in amounts /\ unit \in units
    /\ api_key = Unset
    /\ sent = <<>> /\ recv = <<>>
    /\ food = Unset /\ detail \in details
    /\ cal_per_g = Unset /\ grams_req = Unset
    /\ ret = Unset
    /\ last_error = <<>>
    /\ errFresh = FALSE
    /\ ROUND_TO_KCAL = IntNum(5)
    /\ rin = Unset /\ rout = Unset

InitUnits == InitGrams(PortionDetails(UnitPortions), UnitUnits, UnitAmounts)

GramsCall ==
    /\ grams_req = Unset
    /\ grams_req' = _grams_for_request(detail, unit, amt, name)
    /\ UNCHANGED <<pc, calls, name, amt, unit, api_key, sent, recv, food, detail,
                   cal_per_g, ret, last_error, errFresh, ROUND_TO_KCAL, rin, rout>>

NextUnits == GramsCall

SpecUnits == InitUnits /\ [][NextUnits]_vars

\* the mass units alone, over portion lists that include a null measure unit
\* name, and with the largest amount of ounces 32-bit arithmetic can multiply
MassAmounts == UnitAmounts \cup {IntNum(1), IntNum(2147483647 \div FALLBACK_GRAMS_oz.n)}

InitMass ==
    InitGrams(PortionDetails(UnitPortions \cup {P_null_name}), {U_g, U_oz}, MassAmounts)

NextMass == GramsCall

SpecMass == InitMass /\ [][NextMass]_vars

----------------------------------------------------------------------------
\* Two lookups issued concurrently, one per thread. The locals (pc, api_key,
\* sent, recv, food, detail, cal_per_g, grams_req, ret) and the ghost errFresh
\* are functions of the thread; rin[t] is the dict of the _set_err call of
\* thread t. _last_error is shared, and _set_err changes it in two steps,
\* clear() and update(), between which the other thread may run.

Threads == {1, 2}

ConcSearchResponses ==
    { [exc |-> "Timeout"],
      [status |-> 200, body |-> Dict([foods |-> List(<<>>)])],
      [status |-> 200, body |-> Dict([foods |-> List(<<C_survey>>)])] }

ConcDetailsResponses ==
    { [status |-> 503, body |-> Unparseable],
      [status |-> 200, body |-> EmptyDict],
      [status |-> 200, body |-> D_banana] }

InitConc ==
    /\ pc = [t \in Threads |-> "idle"]
    /\ calls = 0
    /\ name = N_dried_banana /\ amt = IntNum(118) /\ unit \in {U_g, U_ml}
    /\ api_key = [t \in Threads |-> Unset]
    /\ sent = [t \in Threads |-> <<>>] /\ recv = [t \in Threads |-> <<>>]
    /\ food = [t \in Threads |-> Unset] /\ detail = [t \in Threads |-> Unset]
    /\ cal_per_g = [t \in Threads |-> Unset] /\ grams_req = [t \in Threads |-> Unset]
    /\ ret = [t \in Threads |-> Unset]
    /\ last_error = <<>>
    /\ errFresh = [t \in Threads |-> FALSE]
    /\ ROUND_TO_KCAL = IntNum(5)
    /\ rin = [t \in Threads |-> Unset]
    /\ rout = Unset

\* thread t enters _set_err(err), or goes on to nxt when err is Unset
ConcSetErr(t, err, nxt) ==
    IF "unset" \in DOMAIN err
    THEN pc' = [pc EXCEPT ![t] = nxt] /\ UNCHANGED rin
    ELSE pc' = [pc EXCEPT ![t] = "clear"] /\ rin' = [rin EXCEPT ![t] = err]

\* thread t calls fdc_lookup_kcal(name, amt, unit, api_key=k)
ConcCall(t, k) ==
    /\ pc[t] = "idle"
    /\ calls' = calls + 1
    /\ api_key' = [api_key EXCEPT ![t] = k]
    /\ IF input_invalid(name, k)
       THEN /\ ConcSetErr(t, err_input(name, k), "done")
            /\ ret' = [ret EXCEPT ![t] = PyNone]
            /\ UNCHANGED sent
       ELSE /\ sent' = [sent EXCEPT ![t] = <<SearchRequest(name, k)>>]
            /\ pc' = [pc EXCEPT ![t] = "search1"]
            /\ UNCHANGED <<ret, rin>>
    /\ UNCHANGED <<name, amt, unit, recv, food, detail, cal_per_g, grams_req,
                   last_error, errFresh, ROUND_TO_KCAL, rout>>

ConcSearchOutcome(t, resp, o) ==
    /\ recv' = [recv EXCEPT ![t] = Append(@, resp)]
    /\ ConcSetErr(t, o.err, o.next)
    /\ food' = [food EXCEPT ![t] = o.food]
    /\ ret' = [ret EXCEPT ![t] = IF o.next = "done" THEN PyNone
                                 ELSE IF o.next = "raised" THEN Raised ELSE @]
    /\ sent' = [sent EXCEPT ![t] =
                  IF o.next = "search2"
                  THEN Append(@, SearchRequestUnfiltered(name, api_key[t]))
                  ELSE IF o.next = "details"
                  THEN Append(@, DetailsRequest(o.food, api_key[t]))
                  ELSE @]
    /\ UNCHANGED <<calls, name, amt, unit, api_key, detail, cal_per_g, grams_req,
                   last_error, errFresh, ROUND_TO_KCAL, rout>>

\* the first search request of thread t is answered
ConcSearchFiltered(t) ==
    /\ pc[t] = "search1"
    /\ \E resp \in ConcSearchResponses :
         \E o \in {search_first(resp, name, api_key[t])} : ConcSearchOutcome(t, resp, o)

\* the second search request of thread t is answered
ConcSearchUnfiltered(t) ==
    /\ pc[t] = "search2"
    /\ \E resp \in ConcSearchResponses :
         \E o \in {search_second(resp, name, api_key[t])} : ConcSearchOutcome(t, resp, o)

\* the details request of thread t is answered
ConcDetails(t) ==
    /\ pc[t] = "details"
    /\ \E resp \in ConcDetailsResponses :
         \E o \in {after_details(resp, food[t], name, amt, unit, ROUND_TO_KCAL)} :
            /\ recv' = [recv EXCEPT ![t] = Append(@, resp)]
            /\ ConcSetErr(t, o.err, o.next)
            /\ detail' = [detail EXCEPT ![t] = o.detail]
            /\ cal_per_g' = [cal_per_g EXCEPT ![t] = o.cal_per_g]
            /\ grams_req' = [grams_req EXCEPT ![t] = o.grams_req]
            /\ ret' = [ret EXCEPT ![t] = o.ret]
    /\ UNCHANGED <<calls, name, amt, unit, api_key, sent, food, last_error, errFresh,
                   ROUND_TO_KCAL, rout>>

\* _set_err of thread t: _last_error.clear()
ConcClear(t) ==
    /\ pc[t] = "clear"
    /\ last_error' = <<>>
    /\ pc' = [pc EXCEPT ![t] = "update"]
    /\ UNCHANGED <<calls, name, amt, unit, api_key, sent, recv, food, detail, cal_per_g,
                   grams_req, ret, errFresh, ROUND_TO_KCAL, rin, rout>>

\* _set_err of thread t: _last_error.update({"stage": stage, **kw}), then the
\* return of fdc_lookup_kcal
ConcUpdate(t) ==
    /\ pc[t] = "update"
    /\ last_error' = rin[t] @@ last_error
    /\ errFresh' = [errFresh EXCEPT ![t] = TRUE]
    /\ pc' = [pc EXCEPT ![t] = "done"]
    /\ UNCHANGED <<calls, name, amt, unit, api_key, sent, recv, food, detail, cal_per_g,
                   grams_req, ret, ROUND_TO_KCAL, rin, rout>>

NextConc ==
    \E t \in Threads :
        \/ \E k \in Keys : ConcCall(t, k)
        \/ ConcSearchFiltered(t)
        \/ ConcSearchUnfiltered(t)
        \/ ConcDetails(t)
        \/ ConcClear(t)
        \/ ConcUpdate(t)

SpecConc == InitConc /\ [][NextConc]_vars

\* The two threads and a caller that reads the record at any moment:
\* last_error() returns _last_error.copy(); rout keeps the copy last returned
\* and, as a ghost, whether a _set_err call had completed before the read
LastErrorRead ==
    /\ rout' = [read |-> last_error, written |-> \E t \in Threads : errFresh[t]]
    /\ UNCHANGED <<pc, calls, name, amt, unit, api_key, sent, recv, food, detail,
                   cal_per_g, grams_req, ret, last_error, errFresh, ROUND_TO_KCAL, rin>>

NextRead ==
    \/ NextConc
    \/ LastErrorRead

SpecRead == InitConc /\ [][NextRead]_vars

----------------------------------------------------------------------------
\* Three lookups of the same row, one after the other: the locals are
\* functions of the lookup, as in SpecConc, and a lookup starts when the one
\* before it has returned.

Lookups == {1, 2, 3}

InitSeq ==
    /\ pc = [t \in Lookups |-> "idle"]
    /\ calls = 0
    /\ name = N_dried_banana /\ amt = IntNum(118) /\ unit \in {U_g, U_ml}
    /\ api_key = [t \in Lookups |-> Unset]
    /\ sent = [t \in Lookups |-> <<>>] /\ recv = [t \in Lookups |-> <<>>]
    /\ food = [t \in Lookups |-> Unset] /\ detail = [t \in Lookups |-> Unset]
    /\ cal_per_g = [t \in Lookups |-> Unset] /\ grams_req = [t \in Lookups |-> Unset]
    /\ ret = [t \in Lookups |-> Unset]
    /\ last_error = <<>>
    /\ errFresh = [t \in Lookups |-> FALSE]
    /\ ROUND_TO_KCAL = IntNum(5)
    /\ rin = [t \in Lookups |-> Unset]
    /\ rout = Unset

\* lookup t starts once the lookups before it have returned
SeqCall(t, k) ==
    /\ \A u \in Lookups : u < t => pc[u] = "done"
    /\ ConcCall(t, k)

NextSeq ==
    \E t \in Lookups :
        \/ \E k \in Keys : SeqCall(t, k)
        \/ ConcSearchFiltered(t)
        \/ ConcSearchUnfiltered(t)
        \/ ConcDetails(t)
        \/ ConcClear(t)
        \/ ConcUpdate(t)

SpecSeq == InitSeq /\ [][NextSeq]_vars

----------------------------------------------------------------------------
\* Vocabulary of the properties

Stage == IF "stage" \in DOMAIN last_error THEN last_error.stage ELSE PyNone

IsSearch(req) == req.url = "FDC_SEARCH_URL"
IsDetails(req) == req.url = "FDC_DETAILS_URL"
NSearch == Cardinality({i \in DOMAIN sent : IsSearch(sent[i])})
NDetails == Cardinality({i \in DOMAIN sent : IsDetails(sent[i])})

\* requests.get raised, or the status is not 200
HardFailure(resp) == "exc" \in DOMAIN resp \/ resp.status # 200
\* timeout or connection failure, 429, 5xx
Transient(resp) ==
    "exc" \in DOMAIN resp \/ resp.status = 429 \/ resp.status \in 500..599
\* 4xx other than 429
Permanent(resp) ==
    "status" \in DOMAIN resp /\ resp.status \in 400..499 /\ resp.status # 429
UnparseableBody(resp) ==
    "body" \in DOMAIN resp /\ "unparseable" \in DOMAIN resp.body
\* status 200 and a record without candidates
ZeroCandidates(resp) ==
    /\ ~HardFailure(resp)
    /\ IsDict(resp.body)
    /\ ~Truthy(Or(Get(resp.body, "foods"), List(<<>>)))
\* the status _http_json reports for resp
StatusOf(resp) ==
    IF "exc" \in DOMAIN resp \/ (UnparseableBody(resp) /\ resp.status = 200)
    THEN PyNone ELSE IntNum(resp.status)

NormUnit == Strip(Lower(Or(unit, EmptyStr)))

\* the details request gave a non-empty record, so extraction and conversion ran
Extracted == IsDict(detail) /\ Truthy(detail)

\* the label calories are numeric and the normalised unit is "serving(s)"
LabelFallbackCase ==
    /\ IsNum(_label_calories(detail))
    /\ NormUnit \in {U_serving, U_servings}

\* both sides of the preferred path resolve for the detail record fetched
BothResolve ==
    /\ IsDict(detail) /\ Truthy(detail)
    /\ IsNum(_calories_per_gram(detail))
    /\ IsNum(_grams_for_request(detail, unit, amt, name))

----------------------------------------------------------------------------
\* C1: fail closed. A lookup that has returned gives a number only if the
\* calories per gram and the grams of the request both resolved on the detail
\* record, or the label calories per serving are numeric and the normalised
\* unit is "serving" or "servings"; otherwise it gives None.
C1_FailClosed ==
    pc = "done" =>
        /\ IsNum(ret) \/ IsNone(ret)
        /\ IsNum(ret) =>
             \/ BothResolve
             \/ /\ IsDict(detail)
                /\ IsNum(_label_calories(detail))
                /\ NormUnit \in {U_serving, U_servings}

\* a number came back although the grams of the request did not resolve
C1_Witness ==
    /\ pc = "done" /\ IsNum(ret)
    /\ IsNone(_grams_for_request(detail, unit, amt, name))
    /\ NormUnit = U_servings

\* C2: every lookup that has returned has overwritten the diagnostic record:
\* _last_error holds a stage written by this lookup.
C2_EveryCallOverwrites ==
    pc = "done" => errFresh /\ "stage" \in DOMAIN last_error

\* C3: with an empty name or an empty api_key the lookup returns None, leaves
\* stage "input" and issues no request.
C3_InputValidation ==
    (pc # "idle" /\ (~Truthy(name) \/ ~Truthy(api_key))) =>
        /\ pc = "done"
        /\ IsNone(ret)
        /\ errFresh /\ Stage = Atom("input")
        /\ sent = <<>>

\* the lookup of ("Dried Banana", 1, "each") without a key has returned
C3_Witness ==
    /\ pc = "done"
    /\ name = N_dried_banana /\ amt = IntNum(1) /\ unit = U_each
    /\ api_key = EmptyStr
    /\ Stage = Atom("input") /\ IsNone(ret)

\* C4: while every search answered so far has status 200 and no candidates, no
\* details request is issued, and when the lookup has returned it has returned
\* None with stage "search_empty".
C4_EmptySearch ==
    (recv # <<>> /\ \A i \in DOMAIN recv : IsSearch(sent[i]) /\ ZeroCandidates(recv[i])) =>
        /\ NDetails = 0
        /\ pc \in {"search2", "done"}
        /\ pc = "done" =>
             /\ Len(recv) = 2
             /\ IsNone(ret)
             /\ errFresh /\ Stage = Atom("search_empty")

\* both searches came back empty
C4_Witness ==
    /\ pc = "done" /\ Len(recv) = 2
    /\ ZeroCandidates(recv[1]) /\ ZeroCandidates(recv[2])
    /\ Stage = Atom("search_empty")

\* C5 as stated: when the first search fails or has no candidates, a second
\* search, without the filter, has been issued by the time the lookup returns.
C5_RetryOnFailureOrEmpty ==
    (pc = "done" /\ recv # <<>>
        /\ (IsNone(_http_json(recv[1])[1]) \/ ZeroCandidates(recv[1]))) =>
        /\ NSearch = 2
        /\ sent[2] = SearchRequestUnfiltered(name, api_key)

\* C5 as the code has it: a first search without candidates is followed by
\* exactly one more search, for the same query and without the filter; a first
\* search that fails ends the lookup with no further request.
C5_RetryOnEmptyOnly ==
    recv # <<>> =>
        /\ ZeroCandidates(recv[1]) =>
             /\ NSearch = 2
             /\ sent[1] = SearchRequest(name, api_key)
             /\ sent[2] = SearchRequestUnfiltered(name, api_key)
             /\ "dataType" \notin DOMAIN sent[2].params.dict
             /\ Get(sent[2].params, "query") = Get(sent[1].params, "query")
        /\ IsNone(_http_json(recv[1])[1]) =>
             /\ Len(sent) = 1
             /\ pc = "done" /\ IsNone(ret)

\* the second search has been issued after an empty first one, and answered
C5_Witness ==
    /\ Len(recv) = 2 /\ ZeroCandidates(recv[1])
    /\ NSearch = 2 /\ pc \in {"done", "details"}

\* C6: a search request that ends in a status other than 200 or in a network
\* error ends the lookup: None is returned, _last_error has stage "search" with
\* the status and the error of that request, and no details request is issued.
C6_SearchHardFailure ==
    \A i \in DOMAIN recv :
        (IsSearch(sent[i]) /\ HardFailure(recv[i])) =>
            /\ pc = "done" /\ IsNone(ret)
            /\ i = Len(recv)
            /\ errFresh /\ Stage = Atom("search")
            /\ last_error.status = StatusOf(recv[i])
            /\ last_error.error = _http_json(recv[i])[3]
            /\ NDetails = 0

\* the second search ended in status 503
C6_Witness ==
    /\ pc = "done" /\ Len(recv) = 2
    /\ IsSearch(sent[2]) /\ recv[2] = [status |-> 503, body |-> Unparseable]
    /\ last_error.status = IntNum(503)

\* C7: a details request that fails (status other than 200, network error or
\* unparseable body) ends the lookup: None is returned, the stage is "details",
\* and neither extraction nor conversion has run.
C7_DetailsFailure ==
    \A i \in DOMAIN recv :
        (IsDetails(sent[i]) /\ (HardFailure(recv[i]) \/ UnparseableBody(recv[i]))) =>
            /\ pc = "done" /\ IsNone(ret)
            /\ errFresh /\ Stage = Atom("details")
            /\ last_error.fdc_id = sent[i].fdcId
            /\ cal_per_g = Unset /\ grams_req = Unset

\* the details request got status 200 with a body that is no JSON
C7_Witness ==
    /\ pc = "done" /\ recv # <<>>
    /\ IsDetails(sent[Len(sent)]) /\ Len(sent) = Len(recv)
    /\ recv[Len(recv)] = [status |-> 200, body |-> Unparseable]
    /\ Stage = Atom("details")

C9_SuccessPath ==
    /\ (pc = "done" /\ BothResolve) =>
          /\ ret = _round_kcal(Mul(_calories_per_gram(detail),
                                   _grams_for_request(detail, unit, amt, name)),
                               ROUND_TO_KCAL)
          /\ IsNum(ret) /\ ret.d = 1
          /\ Truthy(ROUND_TO_KCAL) => ret.n % ROUND_TO_KCAL.n = 0
          /\ errFresh /\ Stage = Atom("ok")
          /\ last_error.total = ret
    /\ (pc = "done" /\ detail = D_banana /\ unit = U_g /\ amt = IntNum(118)) =>
          ret = IntNum(105)

\* 118 g of the food with 89 kcal per 100 g has been looked up
C9_Witness ==
    /\ pc = "done" /\ detail = D_banana /\ unit = U_g /\ amt = IntNum(118)
    /\ ret = IntNum(105) /\ Stage = Atom("ok")

\* C10: _round_kcal gives a whole multiple of the granularity (5, or 1 when
\* ROUND_TO_KCAL is None or 0) that is nearest to the raw total; a raw total
\* halfway between two multiples goes to the even multiple, upwards and
\* downwards alike; 172.3 gives 170 and 173.0 gives 175.
C10_Rounding ==
    rout # Unset =>
        LET step == IF Truthy(ROUND_TO_KCAL) THEN ROUND_TO_KCAL.n ELSE 1
            diff == Abs(rout.n * rin.d - rin.n)
        IN  /\ rout.d = 1
            /\ rout.n % step = 0
            /\ 2 * diff <= step * rin.d
            /\ 2 * diff = step * rin.d => (rout.n \div step) % 2 = 0
            /\ (step = 5 /\ rin = Num(1723, 10)) => rout = IntNum(170)
            /\ (step = 5 /\ rin = IntNum(173)) => rout = IntNum(175)
            /\ (step = 1 /\ rin = Num(1723, 10)) => rout = IntNum(172)

\* 177.5 went up to 180 (172.5 goes down to 170 by the same rule)
C10_Witness ==
    /\ ROUND_TO_KCAL = IntNum(5)
    /\ rin = Num(1775, 10) /\ rout = IntNum(180)

\* C11: when the details record was fetched, one of the two sides did not
\* resolve, the label calories are numeric and the normalised unit is
\* "serving" or "servings", the lookup returns _round_kcal(amt * label calories)
\* with stage "ok_fallback_label" and that total; stage "ok" is left only by a
\* lookup whose result is the rounded product of calories per gram and grams.
C11_LabelFallback ==
    pc = "done" =>
        /\ (Extracted /\ ~BothResolve /\ LabelFallbackCase) =>
              /\ ret = _round_kcal(Mul(amt, _label_calories(detail)), ROUND_TO_KCAL)
              /\ errFresh /\ Stage = Atom("ok_fallback_label")
              /\ last_error.total = ret
        /\ (errFresh /\ Stage = Atom("ok")) =>
              /\ BothResolve
              /\ ret = _round_kcal(Mul(_calories_per_gram(detail),
                                       _grams_for_request(detail, unit, amt, name)),
                                   ROUND_TO_KCAL)

\* 2.5 "Servings" of a food with 45 kcal per serving and no gram data: 112.5,
\* rounded to 110
C11_Witness ==
    /\ pc = "done" /\ detail = D_label_only
    /\ unit = U_Servings /\ amt = Num(5, 2) /\ ROUND_TO_KCAL = IntNum(5)
    /\ ret = IntNum(110) /\ Stage = Atom("ok_fallback_label")

\* C12: when the details record was fetched, one of the two sides did not
\* resolve and the label fallback does not apply, the lookup returns None with
\* stage "parse"; the message is the calories-per-gram one whenever the
\* calories per gram are unresolved, and the gram-conversion one, with the
\* unit as passed, only when they resolved and the grams did not.
C12_ParseFailure ==
    (pc = "done" /\ Extracted /\ ~BothResolve /\ ~LabelFallbackCase) =>
        /\ IsNone(ret)
        /\ errFresh /\ Stage = Atom("parse")
        /\ last_error.fdc_id = Get(food, "fdcId")
        /\ last_error.error =
              IF IsNone(_calories_per_gram(detail))
              THEN Atom("no per-gram calories")
              ELSE [fmt |-> "no gram match for unit=", unit |-> unit]

\* neither side resolved: the message names the calories per gram
C12_Witness ==
    /\ pc = "done" /\ Extracted
    /\ IsNone(_calories_per_gram(detail))
    /\ IsNone(_grams_for_request(detail, unit, amt, name))
    /\ Stage = Atom("parse")
    /\ last_error.error = Atom("no per-gram calories")

\* the ranking criteria of one candidate, for the query in name
SourceOrder(f) ==
    LET dt == GetDefault(f, "dataType", Atom(""))
        known == <<Atom("Survey (FNDDS)"), Atom("SR Legacy"), Atom("Foundation"),
                   Atom("Branded")>>
    IN  IF \E i \in 1..4 : known[i] = dt THEN CHOOSE i \in 1..4 : known[i] = dt ELSE 5
DriedAgrees(f) ==
    In(W_dried, Lower(Or(name, EmptyStr)))
        = In(W_dried, Lower(Or(Get(f, "description"), EmptyStr)))
ScoreOf(f) == IF "score" \in DOMAIN f.dict THEN f.dict.score ELSE IntNum(0)
\* f comes strictly before g
RanksBefore(f, g) ==
    \/ SourceOrder(f) < SourceOrder(g)
    \/ SourceOrder(f) = SourceOrder(g) /\ DriedAgrees(f) /\ ~DriedAgrees(g)
    \/ /\ SourceOrder(f) = SourceOrder(g)
       /\ DriedAgrees(f) = DriedAgrees(g)
       /\ Less(ScoreOf(g), ScoreOf(f))

\* C13: _best_food gives None for the empty list and otherwise an element of
\* the list that no element comes strictly before, where source type decides
\* first (Survey (FNDDS), SR Legacy, Foundation, Branded, then any other),
\* agreement on "dried" between query and description second, and the higher
\* score (0 when missing) last; Branded, Foundation, Survey (FNDDS) with equal
\* scores gives the Survey (FNDDS) candidate.
C13_Ranker ==
    food # Unset =>
        /\ rin = <<>> => IsNone(food)
        /\ rin # <<>> =>
              /\ \E i \in DOMAIN rin : rin[i] = food
              /\ \A j \in DOMAIN rin : ~RanksBefore(rin[j], food)
        /\ rin = RankExample => food = RankExample[3]

\* a Branded candidate that agrees on "dried" and has the higher score lost to
\* an SR Legacy candidate that does not agree and has no score
C13_Witness ==
    /\ food # Unset /\ Len(rin) = 2
    /\ name = Str(<<"D","R","I","E","D"," ","f","i","g">>)
    /\ rin[1] = RankCandidate("Branded", Str(<<"F","i","g","s",","," ","D","r","i","e","d">>),
                              IntNum(1))
    /\ food = RankCandidate("SR Legacy", Str(<<"F","i","g","s",","," ","r","a","w">>), Unset)
    /\ food = rin[2]

\* the nutrient list of the details record
NutrientList == Or(Get(detail, "foodNutrients"), List(<<>>)).list
\* entry n is an energy entry with a numeric amount
EnergyEntry(n) ==
    LET inner == Or(Get(n, "nutrient"), EmptyDict)
        code == Or(Get(inner, "number"), Get(n, "nutrientNumber"))
        nm == Lower(Or(Get(inner, "name"), EmptyStr))
    IN  /\ IsNum(Get(n, "amount"))
        /\ \/ code = W_1008
           \/ code = IntNum(1008)
           \/ In(W_energy, nm)
           \/ In(W_kcal, nm)
EnergyEntries == {i \in DOMAIN NutrientList : EnergyEntry(NutrientList[i])}
\* the label path resolves
LabelPathResolves ==
    /\ IsNum(_label_calories(detail))
    /\ IsNum(_serving_size_grams(detail))
    /\ _serving_size_grams(detail).n > 0

\* C14: when the nutrient list has an energy entry with a numeric amount, the
\* calories per gram are the amount of the first such entry / 100, whatever
\* the label block and the serving size say; the label path (label calories /
\* serving grams) is used only without such an entry, and None is returned
\* only when neither resolves; nutrient 1008 = 165 with label 200 per 100 g
\* gives 1.65.
C14_ExtractorPriority ==
    cal_per_g # Unset =>
        /\ EnergyEntries # {} =>
              \E i \in EnergyEntries :
                  /\ \A j \in EnergyEntries : i <= j
                  /\ cal_per_g = Div(Get(NutrientList[i], "amount"), IntNum(100))
        /\ (EnergyEntries = {} /\ LabelPathResolves) =>
              cal_per_g = Div(_label_calories(detail), _serving_size_grams(detail))
        /\ IsNone(cal_per_g) <=> (EnergyEntries = {} /\ ~LabelPathResolves)
        /\ detail = ExtractExample => cal_per_g = Num(165, 100)

\* the example: both paths resolve and the nutrient table wins
C14_Witness ==
    /\ detail = ExtractExample
    /\ LabelPathResolves
    /\ cal_per_g = Num(165, 100)

\* the portion list of the details record
PortionList == Or(Get(detail, "foodPortions"), List(<<>>)).list
\* portion p has a gram weight and mentions the unit token tok: in its
\* description or the name of its measure unit, or, for "each", as "each",
\* "piece" or "unit" in its description
Mentions(p, tok) ==
    LET desc == Lower(Or(Get(p, "portionDescription"), EmptyStr))
        mu == Or(Get(p, "measureUnit"), EmptyDict)
        nm == Lower(Or(Get(mu, "name"), EmptyStr))
    IN  /\ IsNum(Get(p, "gramWeight"))
        /\ \/ In(tok, desc)
           \/ In(tok, nm)
           \/ tok = U_each /\ \E w \in {U_each, W_piece, W_unit} : In(w, desc)
MatchingPortions == {i \in DOMAIN PortionList : Mentions(PortionList[i], NormUnit)}

\* C15: for unit "g" _grams_for_request gives amt, and for unit "oz" it gives
\* amt * 28.349523125 (= 28 + 349523125 / 10^9), for every amount (0 and
\* negative ones too), food name and details record; no portion, whatever it
\* mentions, changes that.
C15_MassUnits ==
    grams_req # Unset =>
        /\ unit = U_g => grams_req = amt
        /\ unit = U_oz =>
              \E frac \in {Num(349523125, 1000000000)} :
                  grams_req = Mul(amt, Num(28 * frac.d + frac.n, frac.d))

\* -2 oz with a portion that mentions "oz" and "g" and one whose measure unit
\* name is null
C15_Witness ==
    /\ unit = U_oz /\ amt = IntNum(-2)
    /\ PortionList = <<P_oz_g, P_null_name>>
    /\ grams_req = Num(-45359237, 800000)

EachKeywords ==
    << <<Str(<<"e","g","g">>), 50>>, <<Str(<<"e","g","g","s">>), 50>>, <<Str(<<"a","p","p","l","e">>), 182>>,
       <<Str(<<"b","a","n","a","n","a">>), 118>>, <<Str(<<"o","r","a","n","g","e">>), 131>>, <<Str(<<"p","e","a","r">>), 178>>,
       <<Str(<<"p","e","a","c","h">>), 150>> >>
KeywordsInName ==
    {i \in DOMAIN EachKeywords : In(EachKeywords[i][1], Lower(Or(name, EmptyStr)))}
EachWeight ==
    IF KeywordsInName = {} THEN 50
    ELSE EachKeywords[CHOOSE i \in KeywordsInName : \A j \in KeywordsInName : i <= j][2]

\* C17: for unit "each" _grams_for_request always gives a number; when no
\* portion mentions the unit it is amt * the weight of the first keyword, in
\* table order, that occurs in the lowercased name, and amt * 50 when none
\* occurs; a name with "egg" in any letter case gives amt * 50.
C17_EachFallback ==
    (grams_req # Unset /\ NormUnit = U_each) =>
        /\ IsNum(grams_req)
        /\ MatchingPortions = {} =>
              /\ grams_req = Mul(amt, IntNum(EachWeight))
              /\ name = N_egg_roll => grams_req = Mul(amt, IntNum(50))
              /\ name = N_pineapple => grams_req = Mul(amt, IntNum(182))

\* "Peach Pear": pear comes first in the table, so 2.5 each are 2.5 * 178 g
C17_Witness ==
    /\ unit = U_EACH_padded /\ amt = Num(5, 2) /\ name = N_peach_pear
    /\ PortionList = <<P_cup>>
    /\ grams_req = IntNum(445)

\* C18: the unit is lowercased and trimmed, a unit that is then empty (None,
\* "", or white space only) counts as "g", so that the result is amt whatever
\* the details record holds, and " OZ " gives what "oz" gives.
C18_UnitNormalisation ==
    grams_req # Unset =>
        /\ NormUnit = EmptyStr => grams_req = amt
        /\ unit = U_OZ_padded => grams_req = _grams_for_request(detail, U_oz, amt, name)

\* C19: a lookup never ends by raising, whatever optional data the answers
\* of the backend leave out or set to null.
C19_NeverRaises == pc # "raised" /\ ret # Raised

\* what a lookup with key k returns when it runs alone and its requests are
\* answered by rs, in order
RunAlone(k, rs) ==
    IF input_invalid(name, k) THEN PyNone
    ELSE LET o1 == search_first(rs[1], name, k)
             o2 == IF o1.next = "search2" THEN search_second(rs[2], name, k) ELSE o1
             nd == IF o1.next = "search2" THEN 3 ELSE 2
         IN  IF o2.next = "done" THEN PyNone
             ELSE after_details(rs[nd], o2.food, name, amt, unit, ROUND_TO_KCAL).ret

\* C20: once both concurrent lookups have returned, each has returned what it
\* returns when run alone against the same answers, and _last_error, if
\* either lookup wrote it, is the complete record one of the two passed to
\* _set_err.
C20_ConcurrentLookups ==
    (\A t \in Threads : pc[t] = "done") =>
        /\ \A t \in Threads : ret[t] = RunAlone(api_key[t], recv[t])
        /\ (\E t \in Threads : rin[t] # Unset) =>
              \E t \in Threads : rin[t] # Unset /\ last_error = rin[t]

\* the backend gave lookups a and b the same answer to the same request
SameAnswers(a, b) ==
    \A i \in DOMAIN recv[a] \cap DOMAIN recv[b] :
        sent[a][i] = sent[b][i] => recv[a][i] = recv[b][i]

LabelValue ==
    LET lab == Get(detail, "labelNutrients")
        cal == IF IsDict(lab) THEN Get(lab, "calories") ELSE PyNone
        v == IF IsDict(cal) THEN Get(cal, "value") ELSE PyNone
    IN  IF IsNum(v) THEN v ELSE PyNone
\* the serving size is numeric and its unit is a gram word
ExplicitGrams ==
    /\ IsNum(Get(detail, "servingSize"))
    /\ IsStr(Get(detail, "servingSizeUnit"))
    /\ Lower(Get(detail, "servingSizeUnit")) \in
           {Str(<<"g">>), Str(<<"g","r","a","m">>), Str(<<"g","r","a","m","s">>)}
\* the portions with a positive gram weight
PositivePortions ==
    {i \in DOMAIN PortionList :
        /\ IsNum(Get(PortionList[i], "gramWeight"))
        /\ Less(IntNum(0), Get(PortionList[i], "gramWeight"))}
\* the serving grams of the label path, None when unresolvable
ServingGrams ==
    IF ExplicitGrams THEN Get(detail, "servingSize")
    ELSE IF PositivePortions # {}
    THEN Get(PortionList[CHOOSE i \in PositivePortions :
                            \A j \in PositivePortions : i <= j], "gramWeight")
    ELSE PyNone

\* C22: without a numeric energy entry and with numeric label calories, the
\* calories per gram are the label calories / the serving grams, where the
\* serving grams are the serving size when it is numeric with a gram unit and
\* otherwise the gram weight of the first portion with a positive one; the
\* result is None when the serving grams are unresolvable or not positive, so
\* no result comes from a serving size of zero or less.
C22_LabelPath ==
    (cal_per_g # Unset /\ EnergyEntries = {} /\ IsNum(LabelValue)) =>
        IF IsNum(ServingGrams) /\ Less(IntNum(0), ServingGrams)
        THEN cal_per_g = Div(LabelValue, ServingGrams)
        ELSE IsNone(cal_per_g)

\* label calories 200 with a serving size in cups: the bite of weight 0 is
\* passed over and the bar of 25 g gives 8 kcal per gram
C22_Witness ==
    /\ EnergyEntries = {} /\ LabelValue = IntNum(200)
    /\ ~ExplicitGrams /\ Get(detail, "servingSize") = IntNum(1)
    /\ Len(PortionList) = 2 /\ Get(PortionList[1], "gramWeight") = IntNum(0)
    /\ ServingGrams = IntNum(25)
    /\ cal_per_g = IntNum(8)

\* the unit token of the request: lowercased and trimmed, "g" for None and ""
RequestUnit == Strip(Lower(IF IsStr(unit) /\ unit # EmptyStr THEN unit ELSE U_g))
\* no portion with a gram weight mentions the unit token
NoPortionMatches ==
    \A i \in DOMAIN PortionList : ~Mentions(PortionList[i], RequestUnit)
\* the units _grams_for_request has an answer for without a portion
KnownUnits == {U_g, U_oz, U_each, U_tbsp, U_tsp, U_cup}

IsFiltered(req) == IsSearch(req) /\ "dataType" \in DOMAIN req.params.dict
IsUnfiltered(req) == IsSearch(req) /\ "dataType" \notin DOMAIN req.params.dict
\* the candidates of an answer, <<>> when it has none or is a failure
CandidatesOf(resp) ==
    IF HardFailure(resp) \/ ~IsDict(resp.body) THEN <<>>
    ELSE LET fs == Get(resp.body, "foods")
         IN  IF "list" \in DOMAIN fs THEN fs.list ELSE <<>>
\* request i is a search that was answered with candidates, and the Ranker's
\* choice among them has the id that request j asks the details of
DetailsFollowSearch(i, j) ==
    /\ IsSearch(sent[i]) /\ i \in DOMAIN recv
    /\ CandidatesOf(recv[i]) # <<>>
    /\ \E best \in {_best_food(CandidatesOf(recv[i]), name)} :
           IsDict(best) /\ sent[j].fdcId = Get(best, "fdcId")

\* C24: within one lookup a details request comes only after a search
\* request that was answered with a non-empty candidate list, and asks for
\* the id of the candidate _best_food selects from it; no search request
\* comes after a details request; the unfiltered search comes only after the
\* filtered one; and there are at most two search requests and one details
\* request.
C24_RequestOrder ==
    /\ NSearch <= 2 /\ NDetails <= 1
    /\ \A j \in DOMAIN sent :
          /\ IsDetails(sent[j]) =>
                /\ \E i \in 1..(j - 1) : DetailsFollowSearch(i, j)
                /\ \A k \in DOMAIN sent : k > j => ~IsSearch(sent[k])
          /\ IsUnfiltered(sent[j]) => \E i \in 1..(j - 1) : IsFiltered(sent[i])

\* filtered search without candidates, unfiltered search with a Branded, a
\* Foundation and a Survey candidate, details of the Survey candidate, the
\* third of the list
C24_Witness ==
    /\ Len(sent) = 3 /\ Len(recv) = 3
    /\ IsFiltered(sent[1]) /\ IsUnfiltered(sent[2]) /\ IsDetails(sent[3])
    /\ CandidatesOf(recv[1]) = <<>>
    /\ CandidatesOf(recv[2]) = <<C_branded, C_foundation, C_survey>>
    /\ sent[3].fdcId = IntNum(13)
    /\ pc = "done"

\* C25: a last_error() call made after some _set_err call has completed,
\* also one that falls inside another thread's _set_err, returns a record
\* with a stage that is the complete record of one _set_err call, never an
\* empty or a mixed one.
C25_AtomicRecord ==
    (rout # Unset /\ rout.written) =>
        /\ "stage" \in DOMAIN rout.read
        /\ \E t \in Threads : rin[t] # Unset /\ rout.read = rin[t]

====
